---- MODULE Spec2Model ----
(***************************************************************************)
(* Model of cluster-manager's interactive terminal session proxy           *)
(* (src/cluster-manager/terminal.go): runTerminalSession with its two      *)
(* copy goroutines, and the resize decoder handleResize.                   *)
(*                                                                         *)
(* Bytes are their ASCII codes.  One session is modelled: the orchestrator *)
(* (the goroutine running runTerminalSession), the pty->websocket          *)
(* goroutine (D), the websocket->pty goroutine (T), and the environment    *)
(* (the spawned process and the websocket peer).                           *)
(***************************************************************************)
EXTENDS Integers, Sequences, FiniteSets, TLC

\* ------------------------------------------------------------------ bounds
\* Size of each goroutine's read buffer.  The code uses 4096; the model
\* scales it down, keeping it larger than a complete resize message.
BufSize == 36
\* Number of frames the peer writes during one session.
MaxMsgs == 2
\* Number of chunks of output the terminal produces during one session.
MaxOut == 1

\* ------------------------------------------------------- program constants
LBrace == 123
Space == 32
Colon == 58
Digit0 == 48
Digit9 == 57
MinParseLen == 10
KeyLen == 6
KeySkip == 7
Uint16Mod == 65536
InitRows == 24
InitCols == 80
DefaultCols == 80
DefaultRows == 24

\* --------------------------------------------------------------- byte text
Quote == <<34>>
KeyCols == Quote \o <<99, 111, 108, 115>> \o Quote
KeyRows == Quote \o <<114, 111, 119, 115>> \o Quote

\* 0-based indexing and slicing, as Go's str[j] and str[i:k]
At(str, j) == str[j + 1]
Slice(str, i, k) == SubSeq(str, i + 1, k)

\* ------------------------------------------------------------ handleResize
\* for j < len(str) && str[j] == ' ' || str[j] == ':' { j++ }
\* Go parses the condition as (j < len(str) && str[j] == ' ') || str[j] == ':',
\* so str[j] is read also when j >= len(str): an index-out-of-range panic,
\* shown here as -1.
RECURSIVE SkipSeparators(_, _)
SkipSeparators(str, j) ==
    IF j >= Len(str) THEN -1
    ELSE IF At(str, j) = Space \/ At(str, j) = Colon
         THEN SkipSeparators(str, j + 1)
         ELSE j

\* for j < len(str) && str[j] >= '0' && str[j] <= '9' { num = num*10 + ... }
RECURSIVE ParseDigits(_, _, _)
ParseDigits(str, j, num) ==
    IF j < Len(str) /\ At(str, j) >= Digit0 /\ At(str, j) <= Digit9
    THEN ParseDigits(str, j + 1, (num * 10 + (At(str, j) - Digit0)) % Uint16Mod)
    ELSE num

\* The value a key found at index i assigns: -1 on a panic, 0 when the
\* variable keeps its value, else the number.
FieldAt(str, i) ==
    LET j == SkipSeparators(str, i + KeySkip)
    IN  IF j = -1 THEN -1 ELSE ParseDigits(str, j, 0)

\* Whether str[i:i+6] is the key.
KeyAt(str, i, key) == Slice(str, i, i + KeyLen) = key

\* ScanCols with the test num > 0 of line 120 forgotten: every number
\* behind a "cols" key is assigned.
RECURSIVE ScanCols_NoPositiveTest(_, _, _)
ScanCols_NoPositiveTest(str, i, cols) ==
    IF i < Len(str) - 5
    THEN ScanCols_NoPositiveTest(str, i + 1,
                  IF KeyAt(str, i, KeyCols) /\ FieldAt(str, i) >= 0
                  THEN FieldAt(str, i) ELSE cols)
    ELSE cols

\* The scanning loop, for i := 0; i < len(str)-5; i++, as it acts on cols:
\* every "cols" key with a number > 0 behind it assigns cols.
RECURSIVE ScanCols(_, _, _)
ScanCols(str, i, cols) ==
    IF i < Len(str) - 5
    THEN ScanCols(str, i + 1,
                  IF KeyAt(str, i, KeyCols) /\ FieldAt(str, i) > 0
                  THEN FieldAt(str, i) ELSE cols)
    ELSE cols

\* The same loop, as it acts on rows.
RECURSIVE ScanRows(_, _, _)
ScanRows(str, i, rows) ==
    IF i < Len(str) - 5
    THEN ScanRows(str, i + 1,
                  IF KeyAt(str, i, KeyRows) /\ FieldAt(str, i) > 0
                  THEN FieldAt(str, i) ELSE rows)
    ELSE rows

\* The loop panics when the separator loop behind some key runs off the
\* end of str.
ScanPanics(str) ==
    \E i \in 0..(Len(str) - KeyLen) :
        /\ KeyAt(str, i, KeyCols) \/ KeyAt(str, i, KeyRows)
        /\ FieldAt(str, i) = -1

\* handleResize(ptmx, data): the size it hands to pty.Setsize, or a panic
\* (no size is set then).
handleResize(data) ==
    IF Len(data) > MinParseLen
    THEN [panic |-> ScanPanics(data),
          cols |-> ScanCols(data, 0, DefaultCols),
          rows |-> ScanRows(data, 0, DefaultRows)]
    ELSE [panic |-> FALSE, cols |-> DefaultCols, rows |-> DefaultRows]

\* ----------------------------------------------------------------- frames
Digits100 == <<49, 48, 48>>
Digits40 == <<52, 48>>
Comma == <<44>>
\* hi
FrameData == <<104, 105>>
\* BufSize times 'a', then {b : ordinary data longer than the read buffer
FrameLong == [k \in 1..BufSize |-> 97] \o <<LBrace, 98>>
\* {"cols":100,"rows":40}
FrameResize ==
    <<LBrace>> \o KeyCols \o <<Colon>> \o Digits100 \o Comma
               \o KeyRows \o <<Colon>> \o Digits40 \o <<125>>
\* {}
FrameEmpty == <<LBrace, 125>>
\* {"rows":40,"cols"   (a resize message cut after a key)
FrameCut ==
    <<LBrace>> \o KeyRows \o <<Colon>> \o Digits40 \o Comma \o KeyCols
\* {"cols":132}
FrameColsOnly == <<LBrace>> \o KeyCols \o <<Colon, 49, 51, 50, 125>>
\* {"cols":0,"rows":50}
FrameZeroCols ==
    <<LBrace>> \o KeyCols \o <<Colon, 48>> \o Comma
               \o KeyRows \o <<Colon, 53, 48, 125>>
\* {xxxxxxxxxxx   (no key in it)
FrameGarbage == <<LBrace>> \o [k \in 1..11 |-> 120]
\* {"rows": 8, "cols": 9}
FrameSpaced ==
    <<LBrace>> \o KeyRows \o <<Colon, Space, 56>> \o Comma \o <<Space>>
               \o KeyCols \o <<Colon, Space, 57, 125>>
\* {"cols":9,"rows":8,"o":{"cols":5}}
FrameNested ==
    <<LBrace>> \o KeyCols \o <<Colon, 57>> \o Comma
               \o KeyRows \o <<Colon, 56>> \o Comma
               \o Quote \o <<111>> \o Quote \o <<Colon, LBrace>>
               \o KeyCols \o <<Colon, 53, 125, 125>>
Frames ==
    {FrameData, FrameLong, FrameResize, FrameEmpty, FrameCut, FrameColsOnly,
     FrameZeroCols, FrameGarbage, FrameSpaced, FrameNested}

IsControl(chunk) == chunk[1] = LBrace

Min(a, b) == IF a < b THEN a ELSE b

\* ------------------------------------------------------------------ state
VARIABLES
    pcO,        \* orchestrator: position in runTerminalSession
    pcD,        \* pty->websocket goroutine
    pcT,        \* websocket->pty goroutine
    done,       \* the done channel: "nil", "open", "closed"
    panicked,   \* where a panic was raised: "none"; "orchClose", line 96,
                \* in runTerminalSession's own goroutine; "loopClose", line
                \* 72, and "resize", in handleResize, both in the
                \* websocket->pty goroutine
    ptmx,       \* "none", "open", "closed"
    ptmxCloses, \* calls of ptmx.Close
    wsClosed,   \* ws.Close was called
    wsCloses,   \* calls of ws.Close
    peerClosed, \* the peer closed the transport
    proc,       \* "notStarted", "running", "exited"
    waited,     \* cmd.Wait returned
    signals,    \* calls of cmd.Process.Signal(os.Interrupt)
    geometry,   \* size last given to pty.Setsize, <<>> before the first
    wsIn,       \* unread bytes of the frame the peer wrote
    nSent,      \* frames the peer wrote
    expected,   \* bytes of the frames written that do not begin with {
    ptyIn,      \* bytes written to the terminal
    tbuf,       \* buf[:n] of the websocket->pty goroutine
    wsOut,      \* the calls of ws.Write, in order
    nOut        \* chunks the terminal produced

vars == <<pcO, pcD, pcT, done, panicked, ptmx, ptmxCloses, wsClosed, wsCloses,
          peerClosed, proc, waited, signals, geometry, wsIn, nSent, expected,
          ptyIn, tbuf, wsOut, nOut>>

\* The cron store of cron.go, which the same program serves.
VARIABLES
    jobs,       \* store.jobs: job id -> job
    disk,       \* the jobs last written to crons.json
    crontab,    \* whether syncCrontab has written the crontab, and its lines
    nextId,     \* job ids handed out so far (uuid.New)
    writer,     \* the client holding store.mu for writing, or NoWriter
    readers,    \* the clients holding store.mu for reading
    pcC,        \* each client's position in its store call
    op,         \* each client's call and its arguments
    ret,        \* what each client's last call returned
    snap,       \* jobs and crontab as they were when the client's call
                \* took the lock
    loaded      \* initCronStorage has run

cronVars ==
    <<jobs, disk, crontab, nextId, writer, readers, pcC, op, ret, snap, loaded>>

\* handleResize called on its own, on frames built from digit runs.
VARIABLES
    dpc,        \* "idle", "called", "returned" or "panicked"
    dFields,    \* the fields the frame was built from: axis and number
    dFrame,     \* the bytes handed to handleResize
    dApplied    \* the size handed to pty.Setsize, NoSize before

decVars == <<dpc, dFields, dFrame, dApplied>>

allVars == <<vars, cronVars, decVars>>

\* -------------------------------------------------------------- cron store
\* Number of job ids uuid.New hands out.
MaxIds == 2

\* The goroutines calling the store at the same time.
Clients == {"h1", "h2"}
NoWriter == "none"
Ids == 1..MaxIds
NoOp == [name |-> "none"]
NoCrontab == [written |-> FALSE, lines |-> {}]
NoSnap == [jobs |-> <<>>, crontab |-> NoCrontab]

CronInit ==
    /\ jobs = <<>> /\ disk = <<>> /\ crontab = NoCrontab /\ nextId = 0
    /\ writer = NoWriter /\ readers = {}
    /\ pcC = [c \in Clients |-> "idle"]
    /\ op = [c \in Clients |-> NoOp]
    /\ ret = [c \in Clients |-> "none"]
    /\ snap = [c \in Clients |-> NoSnap]
    /\ loaded = FALSE

\* ----------------------------------------------------------- decoder calls
\* Number of fields in a frame.
MaxFields == 2

NoSize == [cols |-> 0, rows |-> 0]

DecInit ==
    /\ dpc = "idle" /\ dFields = <<>> /\ dFrame = <<>> /\ dApplied = NoSize

Init ==
    /\ pcO = "start" /\ pcD = "none" /\ pcT = "none"
    /\ done = "nil" /\ panicked = "none"
    /\ ptmx = "none" /\ ptmxCloses = 0
    /\ wsClosed = FALSE /\ wsCloses = 0 /\ peerClosed = FALSE
    /\ proc = "notStarted" /\ waited = FALSE /\ signals = 0
    /\ geometry = <<>>
    /\ wsIn = <<>> /\ nSent = 0 /\ expected = <<>> /\ ptyIn = <<>>
    /\ tbuf = <<>> /\ wsOut = <<>> /\ nOut = 0
    /\ CronInit
    /\ DecInit

\* A panic in a spawned goroutine ends the whole program.  The panic of
\* runTerminalSession's own goroutine unwinds that goroutine only: it runs in
\* an HTTP handler, and the two spawned goroutines go on.
Alive == panicked \in {"none", "orchClose"}

\* ------------------------------------------------------------ orchestrator
\* ptmx, err := pty.Start(cmd): either outcome
StartPty ==
    /\ Alive /\ pcO = "start"
    /\ \E ok \in BOOLEAN :
         IF ok THEN /\ ptmx' = "open" /\ proc' = "running" /\ pcO' = "setsize"
               ELSE /\ pcO' = "diag" /\ UNCHANGED <<ptmx, proc>>
    /\ UNCHANGED <<pcD, pcT, done, panicked, ptmxCloses, wsClosed, wsCloses,
                   peerClosed, waited, signals, geometry, wsIn, nSent,
                   expected, ptyIn, tbuf, wsOut, nOut>>
    /\ UNCHANGED <<cronVars, decVars>>

\* ws.Write([]byte("Failed to start terminal: ..."))
WriteDiagnostic ==
    /\ Alive /\ pcO = "diag"
    /\ wsOut' = Append(wsOut, "diag")
    /\ pcO' = "diagClose"
    /\ UNCHANGED <<pcD, pcT, done, panicked, ptmx, ptmxCloses, wsClosed,
                   wsCloses, peerClosed, proc, waited, signals, geometry, wsIn,
                   nSent, expected, ptyIn, tbuf, nOut>>
    /\ UNCHANGED <<cronVars, decVars>>

\* CloseAfterDiagnostic with the return on line 21 forgotten: the session
\* goes on to set the initial size.
CloseAfterDiagnostic_NoReturn ==
    /\ Alive /\ pcO = "diagClose"
    /\ wsClosed' = TRUE /\ wsCloses' = wsCloses + 1
    /\ pcO' = "setsize"
    /\ UNCHANGED <<pcD, pcT, done, panicked, ptmx, ptmxCloses, peerClosed,
                   proc, waited, signals, geometry, wsIn, nSent, expected,
                   ptyIn, tbuf, wsOut, nOut>>
    /\ UNCHANGED <<cronVars, decVars>>

\* ws.Close(); return
CloseAfterDiagnostic ==
    /\ Alive /\ pcO = "diagClose"
    /\ wsClosed' = TRUE /\ wsCloses' = wsCloses + 1
    /\ pcO' = "returned"
    /\ UNCHANGED <<pcD, pcT, done, panicked, ptmx, ptmxCloses, peerClosed,
                   proc, waited, signals, geometry, wsIn, nSent, expected,
                   ptyIn, tbuf, wsOut, nOut>>
    /\ UNCHANGED <<cronVars, decVars>>

\* SetInitialSize with the two numbers of lines 27 and 28 exchanged.
SetInitialSize_Swapped ==
    /\ Alive /\ pcO = "setsize"
    /\ geometry' = [rows |-> InitCols, cols |-> InitRows]
    /\ done' = "open"
    /\ pcO' = "goD"
    /\ UNCHANGED <<pcD, pcT, panicked, ptmx, ptmxCloses, wsClosed, wsCloses,
                   peerClosed, proc, waited, signals, wsIn, nSent, expected,
                   ptyIn, tbuf, wsOut, nOut>>
    /\ UNCHANGED <<cronVars, decVars>>

\* pty.Setsize(ptmx, {Rows: 24, Cols: 80}); done := make(chan struct{})
SetInitialSize ==
    /\ Alive /\ pcO = "setsize"
    /\ geometry' = [rows |-> InitRows, cols |-> InitCols]
    /\ done' = "open"
    /\ pcO' = "goD"
    /\ UNCHANGED <<pcD, pcT, panicked, ptmx, ptmxCloses, wsClosed, wsCloses,
                   peerClosed, proc, waited, signals, wsIn, nSent, expected,
                   ptyIn, tbuf, wsOut, nOut>>
    /\ UNCHANGED <<cronVars, decVars>>

\* wg.Add(1); go func() { ... pty -> websocket ... }()
SpawnD ==
    /\ Alive /\ pcO = "goD"
    /\ pcD' = "select" /\ pcO' = "goT"
    /\ UNCHANGED <<pcT, done, panicked, ptmx, ptmxCloses, wsClosed, wsCloses,
                   peerClosed, proc, waited, signals, geometry, wsIn, nSent,
                   expected, ptyIn, tbuf, wsOut, nOut>>
    /\ UNCHANGED <<cronVars, decVars>>

\* wg.Add(1); go func() { ... websocket -> pty ... }()
SpawnT ==
    /\ Alive /\ pcO = "goT"
    /\ pcT' = "read" /\ pcO' = "cmdWait"
    /\ UNCHANGED <<pcD, done, panicked, ptmx, ptmxCloses, wsClosed, wsCloses,
                   peerClosed, proc, waited, signals, geometry, wsIn, nSent,
                   expected, ptyIn, tbuf, wsOut, nOut>>
    /\ UNCHANGED <<cronVars, decVars>>

\* cmd.Wait() returns once the process has exited
CmdWait ==
    /\ Alive /\ pcO = "cmdWait" /\ proc = "exited"
    /\ waited' = TRUE /\ pcO' = "closeDone"
    /\ UNCHANGED <<pcD, pcT, done, panicked, ptmx, ptmxCloses, wsClosed,
                   wsCloses, peerClosed, proc, signals, geometry, wsIn, nSent,
                   expected, ptyIn, tbuf, wsOut, nOut>>
    /\ UNCHANGED <<cronVars, decVars>>

\* close(done) on line 96.  Closing a closed channel panics; the panic
\* unwinds runTerminalSession, running its deferred ptmx.Close().
OrchCloseDone ==
    /\ Alive /\ pcO = "closeDone"
    /\ IF done = "closed"
       THEN /\ panicked' = "orchClose" /\ pcO' = "unwind" /\ UNCHANGED done
       ELSE /\ done' = "closed" /\ pcO' = "wsClose" /\ UNCHANGED panicked
    /\ UNCHANGED <<pcD, pcT, ptmx, ptmxCloses, wsClosed, wsCloses, peerClosed,
                   proc, waited, signals, geometry, wsIn, nSent, expected,
                   ptyIn, tbuf, wsOut, nOut>>
    /\ UNCHANGED <<cronVars, decVars>>

\* ws.Close() on line 97
OrchCloseWs ==
    /\ Alive /\ pcO = "wsClose"
    /\ wsClosed' = TRUE /\ wsCloses' = wsCloses + 1
    /\ pcO' = "wgWait"
    /\ UNCHANGED <<pcD, pcT, done, panicked, ptmx, ptmxCloses, peerClosed,
                   proc, waited, signals, geometry, wsIn, nSent, expected,
                   ptyIn, tbuf, wsOut, nOut>>
    /\ UNCHANGED <<cronVars, decVars>>

\* OrchWgWait with the websocket->pty goroutine left out of the wait group
\* (its wg.Add(1) forgotten).
OrchWgWait_OnlyD ==
    /\ Alive /\ pcO = "wgWait"
    /\ pcD = "exited"
    /\ pcO' = "deferred"
    /\ UNCHANGED <<pcD, pcT, done, panicked, ptmx, ptmxCloses, wsClosed,
                   wsCloses, peerClosed, proc, waited, signals, geometry, wsIn,
                   nSent, expected, ptyIn, tbuf, wsOut, nOut>>
    /\ UNCHANGED <<cronVars, decVars>>

\* wg.Wait() returns once both goroutines ran wg.Done()
OrchWgWait ==
    /\ Alive /\ pcO = "wgWait"
    /\ pcD = "exited" /\ pcT = "exited"
    /\ pcO' = "deferred"
    /\ UNCHANGED <<pcD, pcT, done, panicked, ptmx, ptmxCloses, wsClosed,
                   wsCloses, peerClosed, proc, waited, signals, geometry, wsIn,
                   nSent, expected, ptyIn, tbuf, wsOut, nOut>>
    /\ UNCHANGED <<cronVars, decVars>>

\* defer ptmx.Close(): runs when the function returns and when it panics
DeferredPtmxClose ==
    /\ Alive /\ pcO \in {"deferred", "unwind"}
    /\ ptmx' = "closed" /\ ptmxCloses' = ptmxCloses + 1
    /\ pcO' = IF pcO = "deferred" THEN "returned" ELSE "panicked"
    /\ UNCHANGED <<pcD, pcT, done, panicked, wsClosed, wsCloses, peerClosed,
                   proc, waited, signals, geometry, wsIn, nSent, expected,
                   ptyIn, tbuf, wsOut, nOut>>
    /\ UNCHANGED <<cronVars, decVars>>

OrchStep ==
    \/ StartPty \/ WriteDiagnostic \/ CloseAfterDiagnostic \/ SetInitialSize
    \/ SpawnD \/ SpawnT \/ CmdWait \/ OrchCloseDone \/ OrchCloseWs
    \/ OrchWgWait \/ DeferredPtmxClose

\* ------------------------------------------- pty -> websocket goroutine (D)
\* select { case <-done: return; default: ... }
DSelect ==
    /\ Alive /\ pcD = "select"
    /\ pcD' = IF done = "closed" THEN "exited" ELSE "read"
    /\ UNCHANGED <<pcO, pcT, done, panicked, ptmx, ptmxCloses, wsClosed,
                   wsCloses, peerClosed, proc, waited, signals, geometry, wsIn,
                   nSent, expected, ptyIn, tbuf, wsOut, nOut>>
    /\ UNCHANGED <<cronVars, decVars>>

\* n, err := ptmx.Read(buf) with n > 0: the terminal produced output
DReadData ==
    /\ Alive /\ pcD = "read"
    /\ ptmx = "open" /\ nOut < MaxOut
    /\ nOut' = nOut + 1
    /\ pcD' = "write"
    /\ UNCHANGED <<pcO, pcT, done, panicked, ptmx, ptmxCloses, wsClosed,
                   wsCloses, peerClosed, proc, waited, signals, geometry, wsIn,
                   nSent, expected, ptyIn, tbuf, wsOut>>
    /\ UNCHANGED <<cronVars, decVars>>

\* ptmx.Read fails or reports io.EOF: return.  The read of a closed handle
\* and the read after the process is gone fail; the terminal may also fail
\* by itself.
DReadError ==
    /\ Alive /\ pcD = "read"
    /\ pcD' = "exited"
    /\ UNCHANGED <<pcO, pcT, done, panicked, ptmx, ptmxCloses, wsClosed,
                   wsCloses, peerClosed, proc, waited, signals, geometry, wsIn,
                   nSent, expected, ptyIn, tbuf, wsOut, nOut>>
    /\ UNCHANGED <<cronVars, decVars>>

\* ws.Write(buf[:n]): it fails once ws.Close was called; after the peer
\* closed it may fail or still succeed (the peer's close ends the reads, not
\* necessarily the writes).  An error goes to line 53.
DWrite ==
    /\ Alive /\ pcD = "write"
    /\ wsOut' = Append(wsOut, "data")
    /\ \E ok \in BOOLEAN :
         /\ ok => ~wsClosed
         /\ ~ok => (wsClosed \/ peerClosed)
         /\ pcD' = IF ok THEN "select" ELSE "writeFailed"
    /\ UNCHANGED <<pcO, pcT, done, panicked, ptmx, ptmxCloses, wsClosed,
                   wsCloses, peerClosed, proc, waited, signals, geometry, wsIn,
                   nSent, expected, ptyIn, tbuf, nOut>>
    /\ UNCHANGED <<cronVars, decVars>>

\* if _, err := ws.Write(...); err != nil { log.Printf(...); return }
DWriteFailed ==
    /\ Alive /\ pcD = "writeFailed"
    /\ pcD' = "exited"
    /\ UNCHANGED <<pcO, pcT, done, panicked, ptmx, ptmxCloses, wsClosed,
                   wsCloses, peerClosed, proc, waited, signals, geometry, wsIn,
                   nSent, expected, ptyIn, tbuf, wsOut, nOut>>
    /\ UNCHANGED <<cronVars, decVars>>

DStep == DSelect \/ DReadData \/ DReadError \/ DWrite \/ DWriteFailed

\* The steps of the goroutine that wait for nothing: ptmx.Read is left out,
\* it returns only when the terminal has output or fails.
DRun == DSelect \/ DWrite \/ DWriteFailed

\* ------------------------------------------- websocket -> pty goroutine (T)
\* A read may return fewer bytes than are pending, whatever the frame; the
\* short reads followed here are those of the resize message, at lengths
\* that cut it inside a key and right after a key.
ShortReads == {15, 18}
ShortReadFrames == {FrameResize}

\* The n a ws.Read may return with these bytes of the frame pending: all of
\* them up to len(buf), or fewer; 0 when there is nothing to return.
ReadSizes(pending) ==
    {Min(BufSize, Len(pending))}
    \cup {m \in ShortReads : pending \in ShortReadFrames /\ m < Len(pending)
                                                         /\ m <= BufSize}

\* n, err := ws.Read(buf) with err == nil.
TReadChunk ==
    /\ Alive /\ pcT = "read"
    /\ ~wsClosed /\ ~(peerClosed /\ wsIn = <<>>)
    /\ \E n \in ReadSizes(wsIn) :
         /\ tbuf' = SubSeq(wsIn, 1, n)
         /\ wsIn' = SubSeq(wsIn, n + 1, Len(wsIn))
    /\ pcT' = "chunk"
    /\ UNCHANGED <<pcO, pcD, done, panicked, ptmx, ptmxCloses, wsClosed,
                   wsCloses, peerClosed, proc, waited, signals, geometry,
                   nSent, expected, ptyIn, wsOut, nOut>>
    /\ UNCHANGED <<cronVars, decVars>>

\* ws.Read returns an error: the connection was closed by ws.Close, or the
\* peer closed it and everything it wrote was read.
TReadError ==
    /\ Alive /\ pcT = "read"
    /\ wsClosed \/ (peerClosed /\ wsIn = <<>>)
    /\ pcT' = "closeDone"
    /\ UNCHANGED <<pcO, pcD, done, panicked, ptmx, ptmxCloses, wsClosed,
                   wsCloses, peerClosed, proc, waited, signals, geometry, wsIn,
                   nSent, expected, ptyIn, tbuf, wsOut, nOut>>
    /\ UNCHANGED <<cronVars, decVars>>

\* close(done) on line 72: panics when the channel is closed already
TCloseDone ==
    /\ Alive /\ pcT = "closeDone"
    /\ IF done = "closed"
       THEN /\ panicked' = "loopClose" /\ UNCHANGED <<done, pcT>>
       ELSE /\ done' = "closed" /\ pcT' = "signal" /\ UNCHANGED panicked
    /\ UNCHANGED <<pcO, pcD, ptmx, ptmxCloses, wsClosed, wsCloses, peerClosed,
                   proc, waited, signals, geometry, wsIn, nSent, expected,
                   ptyIn, tbuf, wsOut, nOut>>
    /\ UNCHANGED <<cronVars, decVars>>

\* cmd.Process.Signal(os.Interrupt); return
TSignal ==
    /\ Alive /\ pcT = "signal"
    /\ signals' = signals + 1
    /\ pcT' = "exited"
    /\ UNCHANGED <<pcO, pcD, done, panicked, ptmx, ptmxCloses, wsClosed,
                   wsCloses, peerClosed, proc, waited, geometry, wsIn, nSent,
                   expected, ptyIn, tbuf, wsOut, nOut>>
    /\ UNCHANGED <<cronVars, decVars>>

\* if n > 0 { ... } with n = 0: next read
TSkipEmpty ==
    /\ Alive /\ pcT = "chunk" /\ Len(tbuf) = 0
    /\ pcT' = "read"
    /\ UNCHANGED <<pcO, pcD, done, panicked, ptmx, ptmxCloses, wsClosed,
                   wsCloses, peerClosed, proc, waited, signals, geometry, wsIn,
                   nSent, expected, ptyIn, tbuf, wsOut, nOut>>
    /\ UNCHANGED <<cronVars, decVars>>

\* if buf[0] == '{' { handleResize(ptmx, buf[:n]); continue }
\* pty.Setsize on a closed handle fails and changes nothing.
TResize ==
    /\ Alive /\ pcT = "chunk" /\ Len(tbuf) > 0 /\ IsControl(tbuf)
    /\ LET res == handleResize(tbuf)
       IN  IF res.panic
           THEN /\ panicked' = "resize" /\ UNCHANGED <<geometry, pcT>>
           ELSE /\ geometry' = IF ptmx = "open"
                               THEN [rows |-> res.rows, cols |-> res.cols]
                               ELSE geometry
                /\ pcT' = "read"
                /\ UNCHANGED panicked
    /\ UNCHANGED <<pcO, pcD, done, ptmx, ptmxCloses, wsClosed, wsCloses,
                   peerClosed, proc, waited, signals, wsIn, nSent, expected,
                   ptyIn, tbuf, wsOut, nOut>>
    /\ UNCHANGED <<cronVars, decVars>>

\* ptmx.Write(buf[:n]) succeeds
TForward ==
    /\ Alive /\ pcT = "chunk" /\ Len(tbuf) > 0 /\ ~IsControl(tbuf)
    /\ ptmx = "open"
    /\ ptyIn' = ptyIn \o tbuf
    /\ pcT' = "read"
    /\ UNCHANGED <<pcO, pcD, done, panicked, ptmx, ptmxCloses, wsClosed,
                   wsCloses, peerClosed, proc, waited, signals, geometry, wsIn,
                   nSent, expected, tbuf, wsOut, nOut>>
    /\ UNCHANGED <<cronVars, decVars>>

\* TForwardError handling the failed ptmx.Write like a failed ws.Read: it
\* goes on to close(done) and the interrupt.
TForwardError_ClosesDone ==
    /\ Alive /\ pcT = "chunk" /\ Len(tbuf) > 0 /\ ~IsControl(tbuf)
    /\ pcT' = "exited"
    /\ done' = "closed"
    /\ signals' = signals + 1
    /\ UNCHANGED <<pcO, pcD, panicked, ptmx, ptmxCloses, wsClosed,
                   wsCloses, peerClosed, proc, waited, geometry, wsIn,
                   nSent, expected, ptyIn, tbuf, wsOut, nOut>>
    /\ UNCHANGED <<cronVars, decVars>>

\* ptmx.Write(buf[:n]) fails: log and return, done is left alone
TForwardError ==
    /\ Alive /\ pcT = "chunk" /\ Len(tbuf) > 0 /\ ~IsControl(tbuf)
    /\ pcT' = "exited"
    /\ UNCHANGED <<pcO, pcD, done, panicked, ptmx, ptmxCloses, wsClosed,
                   wsCloses, peerClosed, proc, waited, signals, geometry, wsIn,
                   nSent, expected, ptyIn, tbuf, wsOut, nOut>>
    /\ UNCHANGED <<cronVars, decVars>>

TStep ==
    \/ TReadChunk \/ TReadError \/ TCloseDone \/ TSignal
    \/ TSkipEmpty \/ TResize \/ TForward \/ TForwardError

\* ------------------------------------------------------------ environment
\* The spawned process exits.
ProcExit ==
    /\ Alive /\ proc = "running"
    /\ proc' = "exited"
    /\ UNCHANGED <<pcO, pcD, pcT, done, panicked, ptmx, ptmxCloses, wsClosed,
                   wsCloses, peerClosed, waited, signals, geometry, wsIn,
                   nSent, expected, ptyIn, tbuf, wsOut, nOut>>
    /\ UNCHANGED <<cronVars, decVars>>

\* The peer writes one frame, once the previous one was read.
PeerSend ==
    /\ Alive /\ ~peerClosed /\ ~wsClosed
    /\ wsIn = <<>> /\ nSent < MaxMsgs
    /\ \E f \in Frames :
         /\ wsIn' = f
         /\ expected' = IF IsControl(f) THEN expected ELSE expected \o f
    /\ nSent' = nSent + 1
    /\ UNCHANGED <<pcO, pcD, pcT, done, panicked, ptmx, ptmxCloses, wsClosed,
                   wsCloses, peerClosed, proc, waited, signals, geometry,
                   ptyIn, tbuf, wsOut, nOut>>
    /\ UNCHANGED <<cronVars, decVars>>

\* The peer closes the transport.
PeerClose ==
    /\ Alive /\ ~peerClosed
    /\ peerClosed' = TRUE
    /\ UNCHANGED <<pcO, pcD, pcT, done, panicked, ptmx, ptmxCloses, wsClosed,
                   wsCloses, proc, waited, signals, geometry, wsIn, nSent,
                   expected, ptyIn, tbuf, wsOut, nOut>>
    /\ UNCHANGED <<cronVars, decVars>>

EnvStep == ProcExit \/ PeerSend \/ PeerClose

Next == OrchStep \/ DStep \/ TStep \/ EnvStep

Spec == Init /\ [][Next]_allVars

\* The Go scheduler runs every runnable goroutine; the process and the peer
\* are free to do nothing.
FairSpec ==
    Spec /\ WF_vars(OrchStep) /\ WF_vars(DRun) /\ WF_vars(TStep)

\* ------------------------------------------------------- cron store calls
\* The calls the HTTP handlers and the run goroutine make on the store: jobs
\* are created with one command and updated to another.
Requests ==
    { [name |-> "create", job |-> [cmd |-> "a", enabled |-> e, status |-> ""]]
        : e \in BOOLEAN }
    \cup { [name |-> "update", id |-> i,
            job |-> [cmd |-> "b", enabled |-> e, status |-> ""]]
             : i \in Ids, e \in BOOLEAN }
    \cup { [name |-> "delete", id |-> i] : i \in Ids }
    \cup { [name |-> "get", id |-> i] : i \in Ids }
    \cup { [name |-> "runStatus", id |-> i, status |-> "success"] : i \in Ids }
    \cup { [name |-> "list"] }

Readers == {"list", "get"}

\* s.jobs[id] = job
Put(m, id, job) ==
    [i \in DOMAIN m \cup {id} |-> IF i = id THEN job ELSE m[i]]

\* delete(s.jobs, id)
Remove(m, id) == [i \in DOMAIN m \ {id} |-> m[i]]

\* The lines syncCrontab writes: one per enabled job.
CrontabLines(m) == { <<i, m[i].cmd>> : i \in {k \in DOMAIN m : m[k].enabled} }

\* What crons.json holds when the program starts: nothing (no file), or
\* the one job an earlier run saved.
StoredFiles ==
    { <<>> } \cup { <<[cmd |-> "a", enabled |-> e, status |-> ""]>> : e \in BOOLEAN }

\* initCronStorage: the store is made and load() reads crons.json into the
\* map, before any handler is registered.  The ids of the stored jobs are
\* in use.  (On a read or parse error main ends the program.)
Load ==
    /\ ~loaded
    /\ \E f \in StoredFiles :
         /\ disk' = f
         /\ jobs' = f
         /\ nextId' = Len(f)
    /\ loaded' = TRUE
    /\ UNCHANGED <<crontab, writer, readers, pcC, op, ret, snap>>
    /\ UNCHANGED <<vars, decVars>>

\* A handler calls a store method; uuid.New never repeats an id.
Call(c) ==
    /\ loaded /\ pcC[c] = "idle"
    /\ \E r \in Requests :
         /\ r.name = "create" => nextId < MaxIds
         /\ op' = [op EXCEPT ![c] = r]
         /\ pcC' = [pcC EXCEPT ![c] = IF r.name \in Readers THEN "rlock" ELSE "lock"]
    /\ UNCHANGED <<jobs, disk, crontab, nextId, writer, readers, ret, snap>>
    /\ UNCHANGED <<vars, decVars, loaded>>

\* s.mu.Lock()
Lock(c) ==
    /\ pcC[c] = "lock"
    /\ writer = NoWriter /\ readers = {}
    /\ writer' = c
    /\ pcC' = [pcC EXCEPT ![c] = "locked"]
    /\ snap' = [snap EXCEPT ![c] = [jobs |-> jobs, crontab |-> crontab]]
    /\ UNCHANGED <<jobs, disk, crontab, nextId, readers, op, ret>>
    /\ UNCHANGED <<vars, decVars, loaded>>

\* create: a fresh id, the job inserted.
CreateBody(c) ==
    /\ pcC[c] = "locked" /\ op[c].name = "create"
    /\ nextId' = nextId + 1
    /\ jobs' = Put(jobs, nextId + 1, op[c].job)
    /\ op' = [op EXCEPT ![c] = [name |-> "create", id |-> nextId + 1, job |-> op[c].job]]
    /\ pcC' = [pcC EXCEPT ![c] = "save"]
    /\ UNCHANGED <<disk, crontab, writer, readers, ret, snap>>
    /\ UNCHANGED <<vars, decVars, loaded>>

\* update: an unknown id is refused; otherwise the new record replaces the
\* existing one, keeping its run status.
UpdateBody(c) ==
    /\ pcC[c] = "locked" /\ op[c].name = "update"
    /\ IF op[c].id \notin DOMAIN jobs
       THEN /\ ret' = [ret EXCEPT ![c] = "job not found"]
            /\ pcC' = [pcC EXCEPT ![c] = "return"]
            /\ UNCHANGED <<jobs, op>>
       ELSE /\ jobs' = Put(jobs, op[c].id,
                           [op[c].job EXCEPT !.status = jobs[op[c].id].status])
            /\ op' = [op EXCEPT ![c] = [name |-> "update", id |-> op[c].id,
                                        job |-> op[c].job,
                                        existing |-> jobs[op[c].id]]]
            /\ pcC' = [pcC EXCEPT ![c] = "save"]
            /\ UNCHANGED ret
    /\ UNCHANGED <<disk, crontab, nextId, writer, readers, snap>>
    /\ UNCHANGED <<vars, decVars, loaded>>

\* delete: an unknown id is refused; otherwise the record is removed.
DeleteBody(c) ==
    /\ pcC[c] = "locked" /\ op[c].name = "delete"
    /\ IF op[c].id \notin DOMAIN jobs
       THEN /\ ret' = [ret EXCEPT ![c] = "job not found"]
            /\ pcC' = [pcC EXCEPT ![c] = "return"]
            /\ UNCHANGED <<jobs, op>>
       ELSE /\ jobs' = Remove(jobs, op[c].id)
            /\ op' = [op EXCEPT ![c] = [name |-> "delete", id |-> op[c].id,
                                        existing |-> jobs[op[c].id]]]
            /\ pcC' = [pcC EXCEPT ![c] = "save"]
            /\ UNCHANGED ret
    /\ UNCHANGED <<disk, crontab, nextId, writer, readers, snap>>
    /\ UNCHANGED <<vars, decVars, loaded>>

\* updateRunStatus: the status recorded on a known job and saved, the
\* outcome of the save ignored.
RunStatusBody(c) ==
    /\ pcC[c] = "locked" /\ op[c].name = "runStatus"
    /\ IF op[c].id \in DOMAIN jobs
       THEN /\ jobs' = [jobs EXCEPT ![op[c].id].status = op[c].status]
            /\ \E ok \in BOOLEAN : disk' = IF ok THEN jobs' ELSE disk
       ELSE UNCHANGED <<jobs, disk>>
    /\ ret' = [ret EXCEPT ![c] = "ok"]
    /\ pcC' = [pcC EXCEPT ![c] = "return"]
    /\ UNCHANGED <<crontab, nextId, writer, readers, op, snap>>
    /\ UNCHANGED <<vars, decVars, loaded>>

\* What each operation does to the map when save fails.
RolledBack(o, m) ==
    IF o.name = "create" THEN Remove(m, o.id) ELSE Put(m, o.id, o.existing)

\* SaveFails with the rollback of lines 121, 147 and 167 forgotten.
SaveFails_NoRollback(c) ==
    /\ pcC[c] = "save"
    /\ UNCHANGED jobs
    /\ ret' = [ret EXCEPT ![c] = "save error"]
    /\ pcC' = [pcC EXCEPT ![c] = "return"]
    /\ UNCHANGED <<disk, crontab, nextId, writer, readers, op, snap>>
    /\ UNCHANGED <<vars, decVars, loaded>>

\* save fails: the map is put back, the error returned.
SaveFails(c) ==
    /\ pcC[c] = "save"
    /\ jobs' = RolledBack(op[c], jobs)
    /\ ret' = [ret EXCEPT ![c] = "save error"]
    /\ pcC' = [pcC EXCEPT ![c] = "return"]
    /\ UNCHANGED <<disk, crontab, nextId, writer, readers, op, snap>>
    /\ UNCHANGED <<vars, decVars, loaded>>

\* save succeeds: the file holds the map.
SaveOk(c) ==
    /\ pcC[c] = "save"
    /\ disk' = jobs
    /\ pcC' = [pcC EXCEPT ![c] = "saved"]
    /\ UNCHANGED <<jobs, crontab, nextId, writer, readers, op, ret, snap>>
    /\ UNCHANGED <<vars, decVars, loaded>>

\* After a successful save: create of a disabled job returns nil, every
\* other call goes into syncCrontab, still holding the write lock.
AfterSave(c) ==
    /\ pcC[c] = "saved"
    /\ IF op[c].name = "create" /\ ~op[c].job.enabled
       THEN /\ ret' = [ret EXCEPT ![c] = "ok"]
            /\ pcC' = [pcC EXCEPT ![c] = "return"]
       ELSE /\ pcC' = [pcC EXCEPT ![c] = "rlock"]
            /\ UNCHANGED ret
    /\ UNCHANGED <<jobs, disk, crontab, nextId, writer, readers, op, snap>>
    /\ UNCHANGED <<vars, decVars, loaded>>

\* mu.RLock(), in list, get and syncCrontab: it waits while a writer holds
\* the lock, the caller itself included.
RLock(c) ==
    /\ pcC[c] = "rlock"
    /\ writer = NoWriter
    /\ readers' = readers \cup {c}
    /\ pcC' = [pcC EXCEPT ![c] = "rlocked"]
    /\ UNCHANGED <<jobs, disk, crontab, nextId, writer, op, ret, snap>>
    /\ UNCHANGED <<vars, decVars, loaded>>

\* The body under the read lock and its RUnlock: list and get say whether
\* they found what was asked for, syncCrontab writes the crontab and goes
\* back to its caller.
ReadBody(c) ==
    /\ pcC[c] = "rlocked"
    /\ readers' = readers \ {c}
    /\ ret' = [ret EXCEPT ![c] =
                 IF op[c].name = "get" /\ op[c].id \notin DOMAIN jobs
                 THEN "absent" ELSE "ok"]
    /\ pcC' = [pcC EXCEPT ![c] = "return"]
    /\ crontab' = IF op[c].name \in Readers THEN crontab
                  ELSE [written |-> TRUE, lines |-> CrontabLines(jobs)]
    /\ UNCHANGED <<jobs, disk, nextId, writer, op, snap>>
    /\ UNCHANGED <<vars, decVars, loaded>>

\* return: the deferred s.mu.Unlock() of a writer runs, and the call's
\* locals are gone.
Return(c) ==
    /\ pcC[c] = "return"
    /\ writer' = IF writer = c THEN NoWriter ELSE writer
    /\ pcC' = [pcC EXCEPT ![c] = "idle"]
    /\ op' = [op EXCEPT ![c] = NoOp]
    /\ ret' = [ret EXCEPT ![c] = "none"]
    /\ snap' = [snap EXCEPT ![c] = NoSnap]
    /\ UNCHANGED <<jobs, disk, crontab, nextId, readers>>
    /\ UNCHANGED <<vars, decVars, loaded>>

\* The steps a call takes once made.
ClientStep(c) ==
    \/ Lock(c) \/ CreateBody(c) \/ UpdateBody(c) \/ DeleteBody(c)
    \/ RunStatusBody(c) \/ SaveFails(c) \/ SaveOk(c) \/ AfterSave(c)
    \/ RLock(c) \/ ReadBody(c) \/ Return(c)

CronNext == Load \/ \E c \in Clients : Call(c) \/ ClientStep(c)

CronSpec == Init /\ [][CronNext]_allVars

\* Every call that can take a step takes it.
CronFairSpec == CronSpec /\ \A c \in Clients : WF_allVars(ClientStep(c))

\* ================================================================= claims

\* C1: the done channel goes from open to closed once and never back, and a
\* close(done) executed when the channel is closed already is a no-op: it
\* raises no panic and leaves the channel closed.
C1_DoneClosedOnceIdempotent ==
    [][ /\ (done = "closed" => done' = "closed")
        /\ (done = "closed" /\ (TCloseDone \/ OrchCloseDone))
              => (panicked' = panicked /\ done' = "closed") ]_vars

\* C2: once the process has exited, both goroutines eventually exit and
\* runTerminalSession eventually returns.
C2_ShutdownCompletes ==
    (proc = "exited") ~> (pcO = "returned" /\ pcD = "exited" /\ pcT = "exited")

\* C3: closing done, the transport and the terminal handle during shutdown
\* raises no panic; the shutdown releases the terminal handle at most
\* once, and a session that attached ends with the transport closed and the
\* terminal handle released exactly once.
C3_CleanShutdown ==
    /\ panicked \notin {"orchClose", "loopClose"}
    /\ ptmxCloses <= 1
    /\ (pcO = "returned" /\ ptmx # "none") => (wsClosed /\ ptmxCloses = 1)

\* C4: the terminal handle is released only after both goroutines have
\* exited and cmd.Wait has returned.
C4_ReleaseAfterLoopsAndWait ==
    ptmx = "closed" => (pcD = "exited" /\ pcT = "exited" /\ waited)

\* C5: after the process exits the orchestrator closes done, then closes the
\* transport, then waits for both goroutines, then releases the terminal
\* handle: each step finds the earlier ones done.
C5_ShutdownOrder ==
    /\ pcO = "wsClose" => (waited /\ done = "closed")
    /\ pcO = "wgWait" => (waited /\ done = "closed" /\ wsClosed)
    /\ ptmxCloses > 0 => (waited /\ done = "closed" /\ wsCloses > 0)

\* C6: when runTerminalSession returns from a session that attached, cmd.Wait
\* has returned, both goroutines have exited, the transport is closed and the
\* terminal handle is released; after the return nothing is read from or
\* written to the transport or the terminal.
C6_ReturnsAfterRelease ==
    /\ [](pcO = "returned" /\ ptmx # "none"
            => /\ waited /\ pcD = "exited" /\ pcT = "exited"
               /\ wsClosed /\ ptmx = "closed")
    /\ [][pcO = "returned"
            => UNCHANGED <<wsIn, tbuf, ptyIn, wsOut, nOut, geometry>>]_vars

\* C6 witness: an attached session has returned, after data reached the
\* terminal.
C6_Witness ==
    pcO = "returned" /\ ptmx = "closed" /\ ptyIn # <<>> /\ panicked = "none"

\* C7: when pty.Start fails the session writes the diagnostic line, closes
\* the transport and returns: no goroutine is started, no size is set, the
\* process is neither waited on nor signalled, done is never made.
C7_AttachFailure ==
    (ptmx = "none" /\ pcO # "start")
      => /\ pcO \in {"diag", "diagClose", "returned"}
         /\ pcD = "none" /\ pcT = "none"
         /\ geometry = <<>> /\ done = "nil"
         /\ ~waited /\ signals = 0 /\ proc = "notStarted"
         /\ panicked = "none"
         /\ wsOut = (IF pcO = "diag" THEN <<>> ELSE <<"diag">>)
         /\ wsClosed = (pcO = "returned")

\* C7 witness: the session has returned after a failed pty.Start.
C7_Witness ==
    pcO = "returned" /\ ptmx = "none" /\ wsOut = <<"diag">> /\ wsClosed

\* C8: a transport read that fails while the process runs and done is open
\* leads to the goroutine closing done, signalling the process once and
\* exiting; the process is never signalled more than once.
C8_InterruptOnTransportError ==
    /\ (pcT = "closeDone" /\ done = "open" /\ proc = "running")
          ~> (pcT = "exited" /\ done = "closed" /\ signals = 1)
    /\ [](signals <= 1)

\* C9: whenever the goroutine is about to read and everything the peer wrote
\* has been read, the terminal has received exactly the bytes of the frames
\* that do not begin with {, in the order written.
C9_ByteFidelity ==
    (pcT = "read" /\ wsIn = <<>>) => ptyIn = expected

\* C10: the step that handles a read beginning with { writes nothing to the
\* terminal and takes the goroutine back to its next read, whatever the
\* read holds; a read with n = 0 changes neither the terminal's input nor
\* its size.
C10_ControlFrameExclusion ==
    [][ /\ (pcT = "chunk" /\ Len(tbuf) > 0 /\ IsControl(tbuf) /\ TStep)
             => (ptyIn' = ptyIn /\ pcT' = "read" /\ panicked' = panicked)
        /\ (pcT = "chunk" /\ Len(tbuf) = 0 /\ TStep)
             => (ptyIn' = ptyIn /\ geometry' = geometry /\ pcT' = "read") ]_vars

\* ---------------------------------------------------- handleResize alone
\* The numbers a peer writes behind a key.
Values == {0, 5, 80, 65535, 65536, 65616, 131077}

\* The decimal text of a number, as the peer writes it.
RECURSIVE Decimal(_)
Decimal(v) ==
    IF v < 10 THEN <<Digit0 + v>>
    ELSE Decimal(v \div 10) \o <<Digit0 + (v % 10)>>

\* "cols":v or "rows":v
FieldText(f) ==
    (IF f.axis = "cols" THEN KeyCols ELSE KeyRows) \o <<Colon>> \o Decimal(f.v)

\* The fields separated by commas.
RECURSIVE FieldsText(_)
FieldsText(fs) ==
    IF Len(fs) = 1 THEN FieldText(fs[1])
    ELSE FieldText(fs[1]) \o Comma \o FieldsText(Tail(fs))

\* How a chunk ends: the closing brace, or cut right after a further key.
Tails == {<<125>>, Comma \o KeyCols}

FieldSeqs ==
    UNION { [1..n -> [axis : {"cols", "rows"}, v : Values]] : n \in 1..MaxFields }

\* A chunk starting with { reaches handleResize.
DecCall ==
    /\ dpc = "idle"
    /\ \E fs \in FieldSeqs, t \in Tails :
         /\ dFields' = fs
         /\ dFrame' = <<LBrace>> \o FieldsText(fs) \o t
    /\ dpc' = "called"
    /\ UNCHANGED dApplied
    /\ UNCHANGED <<vars, cronVars>>

\* handleResize runs: it panics, or it hands a size to pty.Setsize.
DecRun ==
    /\ dpc = "called"
    /\ IF handleResize(dFrame).panic
       THEN /\ dpc' = "panicked"
            /\ UNCHANGED dApplied
       ELSE /\ dpc' = "returned"
            /\ dApplied' = [cols |-> handleResize(dFrame).cols,
                            rows |-> handleResize(dFrame).rows]
    /\ UNCHANGED <<dFields, dFrame>>
    /\ UNCHANGED <<vars, cronVars>>

DecNext == DecCall \/ DecRun

DecSpec == Init /\ [][DecNext]_allVars

\* ------------------------------------------------ claims on handleResize
\* The number a frame carries for an axis: what the scan assigns when it
\* starts from 0, so 0 when the frame has no valid field for that axis.
DecodedCols(data) ==
    IF Len(data) > MinParseLen THEN ScanCols(data, 0, 0) ELSE 0
DecodedRows(data) ==
    IF Len(data) > MinParseLen THEN ScanRows(data, 0, 0) ELSE 0

\* The goroutine handles the control read in tbuf and goes on to its next
\* read, the terminal handle being open.
ResizeHandled ==
    /\ pcT = "chunk" /\ Len(tbuf) > 0 /\ IsControl(tbuf)
    /\ ptmx = "open" /\ pcT' = "read"

\* C11: handling a control frame that carries a valid number for one axis
\* only changes that axis only: the other axis keeps the value the terminal
\* had before the frame.
C11_PartialFrameKeepsOtherAxis ==
    [][ ResizeHandled =>
          /\ (DecodedCols(tbuf) = 0 /\ DecodedRows(tbuf) > 0)
                => geometry'.cols = geometry.cols
          /\ (DecodedRows(tbuf) = 0 /\ DecodedCols(tbuf) > 0)
                => geometry'.rows = geometry.rows ]_vars

\* C12: handling a control frame that carries no valid number for either
\* axis leaves the terminal's size as it was.
C12_EmptyFrameIsNoOp ==
    [][ (ResizeHandled /\ DecodedCols(tbuf) = 0 /\ DecodedRows(tbuf) = 0)
          => geometry' = geometry ]_vars

\* C13: handleResize returns normally for every read beginning with {: no
\* read makes it panic.
C13_DecoderNeverPanics ==
    /\ panicked # "resize"
    /\ (pcT = "chunk" /\ Len(tbuf) > 0 /\ IsControl(tbuf))
          => ~handleResize(tbuf).panic

\* C14: the size given to the terminal always has rows > 0 and cols > 0
\* (and both fit 16 bits).
C14_GeometryPositive ==
    geometry # <<>>
      => /\ geometry.rows > 0 /\ geometry.rows < Uint16Mod
         /\ geometry.cols > 0 /\ geometry.cols < Uint16Mod

\* C14 witness: a frame with "cols":0 was handled; cols kept a positive
\* value.
C14_Witness ==
    /\ pcT = "read" /\ tbuf = FrameZeroCols
    /\ geometry = [rows |-> 50, cols |-> 80]

\* The well-formed frames among Frames, with the numbers they carry.
WellFormed ==
    { [frame |-> FrameResize, cols |-> 100, rows |-> 40],
      [frame |-> FrameSpaced, cols |-> 9, rows |-> 8],
      [frame |-> FrameNested, cols |-> 9, rows |-> 8] }

\* C15: handling a well-formed frame {"cols":c,"rows":r} (keys in either
\* order, spaces after the colon, other keys besides) read in one piece
\* sets the terminal's size to exactly c columns and r rows and writes
\* nothing to the terminal.
C15_WellFormedFrameApplied ==
    [][ \A w \in WellFormed :
          (ResizeHandled /\ tbuf = w.frame)
             => /\ geometry' = [rows |-> w.rows, cols |-> w.cols]
                /\ ptyIn' = ptyIn ]_vars

\* C16: the size is set to 24 rows and 80 columns before either goroutine
\* is started, and afterwards only the handling of a control read changes
\* it: forwarding data in either direction does not.
C16_DefaultGeometry ==
    /\ [][SetInitialSize
            => /\ geometry' = [rows |-> 24, cols |-> 80]
               /\ pcD' = "none" /\ pcT' = "none"]_vars
    /\ [](pcD # "none" \/ pcT # "none" => geometry # <<>>)
    /\ [][geometry' # geometry
            => \/ pcO = "setsize"
               \/ pcT = "chunk" /\ Len(tbuf) > 0 /\ IsControl(tbuf)]_vars

\* C16 witness: data went both ways and the size is still 24 x 80.
C16_Witness ==
    /\ ptyIn # <<>> /\ wsOut # <<>>
    /\ geometry = [rows |-> 24, cols |-> 80]

\* C17: once a ws.Write of the pty->websocket goroutine has failed while
\* done is open, done eventually becomes closed, unless the program has
\* died.
C17_WriteErrorTerminates ==
    (pcD = "writeFailed" /\ done = "open") ~> (done = "closed" \/ ~Alive)

\* C18: the step by which the websocket->pty goroutine exits on a failed
\* ptmx.Write leaves done, the interrupt count, the transport and the other
\* goroutine as they were; the step by which the pty->websocket goroutine
\* exits on a failed ptmx.Read leaves done, the interrupt count and the
\* other goroutine as they were.
C18_TerminalErrorExitsOneLoop ==
    [][ /\ (pcT = "chunk" /\ pcT' = "exited")
             => UNCHANGED <<done, signals, wsClosed, wsCloses, pcD, pcO>>
        /\ (pcD = "read" /\ pcD' = "exited")
             => UNCHANGED <<done, signals, wsClosed, pcT, pcO>> ]_vars

\* C18 witness: the websocket->pty goroutine has exited on a failed
\* ptmx.Write and the pty->websocket goroutine has exited on a failed
\* ptmx.Read, with done open, no interrupt and the transport open.
C18_Witness ==
    /\ pcT = "exited" /\ pcD = "exited"
    /\ done = "open" /\ signals = 0 /\ ~wsClosed /\ ~peerClosed

\* C19: every create, update or delete whose save succeeded eventually
\* returns with the store's lock free, its crontab synchronisation included.
C19_SavedCallReturns ==
    \A c \in Clients : (pcC[c] = "saved") ~> (pcC[c] = "idle" /\ writer # c)

\* C20: a create, update or delete whose save failed returns the error with
\* the map as it was before the call and the crontab not synchronised; update
\* and delete of an unknown id return "job not found" with the map unchanged.
C20_FailedSaveRollsBack ==
    /\ [](\A c \in Clients :
            (pcC[c] = "return" /\ ret[c] \in {"save error", "job not found"})
               => /\ jobs = snap[c].jobs
                  /\ crontab = snap[c].crontab)
    /\ [][\A c \in Clients :
            /\ (pcC[c] = "save" /\ pcC'[c] = "return") => ret'[c] = "save error"
            /\ (/\ pcC[c] = "locked" /\ op[c].name \in {"update", "delete"}
                /\ op[c].id \notin DOMAIN jobs /\ pcC'[c] # "locked")
                  => /\ ret'[c] = "job not found" /\ pcC'[c] = "return"
                     /\ jobs' = jobs]_allVars

C20_Witness ==
    \E c \in Clients :
        /\ pcC[c] = "return" /\ ret[c] = "save error"
        /\ op[c].name = "update" /\ op[c].job.cmd # jobs[op[c].id].cmd

\* The number the last field of the axis with v mod 65536 non-zero carries,
\* 0 when there is none.
RECURSIVE LastNonZero(_, _)
LastNonZero(fs, axis) ==
    IF fs = <<>> THEN 0
    ELSE IF fs[Len(fs)].axis = axis /\ fs[Len(fs)].v % Uint16Mod # 0
         THEN fs[Len(fs)].v % Uint16Mod
         ELSE LastNonZero(SubSeq(fs, 1, Len(fs) - 1), axis)

\* C21: once handleResize was called on a frame, it has returned and for
\* each axis the size applied is v mod 65536 of the last digit run of that
\* axis for which that is non-zero; when there is no such run the field
\* decodes as absent.
C21_Uint16Accumulation ==
    dpc \in {"returned", "panicked"} =>
        /\ dpc = "returned"
        /\ LastNonZero(dFields, "cols") # 0
             => dApplied.cols = LastNonZero(dFields, "cols")
        /\ LastNonZero(dFields, "rows") # 0
             => dApplied.rows = LastNonZero(dFields, "rows")
        /\ LastNonZero(dFields, "cols") = 0 => DecodedCols(dFrame) = 0
        /\ LastNonZero(dFields, "rows") = 0 => DecodedRows(dFrame) = 0

====
